---- MODULE Spec2Model ----
\* Runtime-context switching (runtime/mod.rs: scope) and the RPC submission
\* layer built on it (rpc/tool.rs: rt_current_addr, json_client, send_tx,
\* credentials_filepath) of workspaces-rs.
EXTENDS Integers, Sequences, FiniteSets, TLC

VARIABLES
    name,       \* name[c]: the backend name caller c passes to scope
    caller,     \* caller[c]: the async task that calls scope and awaits it
    worker,     \* worker[c]: the spawn_blocking closure of c's scope call
    ctx,        \* ctx[t]: the thread-local "current descriptor" of thread t
    resolved,   \* resolved[c]: what each helper call of c's task resolved
    fs,         \* directories that exist on disk
    tx,         \* the send_tx call made by the task of scope TxScope
    backend,    \* the JSON-RPC backend the send_tx call talks to
    program,    \* program[c]: the operations of the task caller c supplies
    pure        \* a call of one of the stateless functions: input and result

vars == <<name, caller, worker, ctx, resolved, fs, tx, backend, program, pure>>

-----------------------------------------------------------------------------
\* Bounds

\* Broadcast attempts of one send_tx call explored by the model.
MaxAttempts == 3

\* The two async tasks that call scope on the caller's scheduler.
Callers == {1, 2}

\* Names passed to scope: the two recognised ones and one that is not.
Names == {"sandbox", "testnet", "mainnet"}

\* The port a default sandbox runtime listens on.
Ports == {3030}

\* The thread of the caller's scheduler, and the threads of the blocking pool.
CoreThread == "core"
BlockingThreads == {"b1", "b2"}
Threads == {CoreThread} \cup BlockingThreads
NoThread == "none"

-----------------------------------------------------------------------------
\* Backend descriptor (RuntimeFlavor)

Mainnet == [flavor |-> "Mainnet", port |-> 0]
Testnet == [flavor |-> "Testnet", port |-> 0]
Sandbox(port) == [flavor |-> "Sandbox", port |-> port]
\* Option::None of context::current()
NoDescriptor == [flavor |-> "None", port |-> 0]

Unimplemented == "unimplemented!"

NoAddr == [host |-> "", port |-> 0]
PanicAddr == [host |-> Unimplemented, port |-> 0]
TESTNET_RPC_URL == [host |-> "TestnetRuntime::RPC_URL", port |-> 0]

\* A variant of rpc_addr that formats the same port for every sandbox.
RpcAddrAnyPort(d) ==
    CASE d.flavor = "Sandbox" -> [host |-> "http://localhost:", port |-> 0]
      [] d.flavor = "Testnet" -> TESTNET_RPC_URL
      [] OTHER -> PanicAddr

\* A variant of rpc_addr that leaves the scheme out.
RpcAddrNoScheme(d) ==
    CASE d.flavor = "Sandbox" -> [host |-> "localhost:", port |-> d.port]
      [] d.flavor = "Testnet" -> TESTNET_RPC_URL
      [] OTHER -> PanicAddr

rpc_addr(d) ==
    CASE d.flavor = "Sandbox" -> [host |-> "http://localhost:", port |-> d.port]
      [] d.flavor = "Testnet" -> TESTNET_RPC_URL
      [] OTHER -> PanicAddr

SANDBOX_CREDENTIALS_DIR == ".near-credentials/sandbox/"
TESTNET_CREDENTIALS_DIR == ".near-credentials/testnet/"
HomeDir == "$HOME"

\* keystore_path with the home directory resolved: PathBuf::from(home).push(dir)
keystore_path(d) ==
    CASE d.flavor = "Sandbox" -> <<HomeDir, SANDBOX_CREDENTIALS_DIR>>
      [] d.flavor = "Testnet" -> <<HomeDir, TESTNET_CREDENTIALS_DIR>>
      [] OTHER -> <<Unimplemented>>

\* What a call of an accessor comes to: it aborts (unimplemented!), or it
\* returns Ok or Err.
Aborted == [status |-> "abort"]
Returned(value) == [status |-> "ok", value |-> value]
Failed(err) == [status |-> "err", err |-> err]

\* rpc_addr never fails: it returns the address or aborts.
RpcAddrCall(d) == IF rpc_addr(d) = PanicAddr THEN Aborted ELSE Returned(rpc_addr(d))

\* keystore_path: dirs::home_dir().ok_or_else(..)? comes first, the match on
\* the variant second.
KeystorePathCall(d, home) ==
    IF ~home THEN Failed("Could not get HOME_DIR")
    ELSE IF keystore_path(d) = <<Unimplemented>> THEN Aborted
    ELSE Returned(keystore_path(d))

TESTNET_HELPER_URL == "TestnetRuntime::HELPER_URL"

\* helper_url: Url::parse(HELPER_URL).unwrap() for Testnet only.
HelperUrlCall(d) ==
    IF d.flavor = "Testnet" THEN Returned(TESTNET_HELPER_URL) ELSE Aborted

\* create_top_level_account: the local routine's result wrapped in Some, the
\* online routine's replaced by None, their errors passed on by `?`.
CreateTopLevelAccountCall(d, inner) ==
    CASE d.flavor = "Sandbox" ->
           IF inner = "ok" THEN Returned(<<"Some", "CallExecutionResult">>) ELSE Failed(inner)
      [] d.flavor = "Testnet" ->
           IF inner = "ok" THEN Returned(<<"None">>) ELSE Failed(inner)
      [] OTHER -> Aborted

\* create_tla_and_deploy: the routine's own result for Sandbox and Testnet.
CreateTlaAndDeployCall(d, inner) ==
    IF d.flavor \in {"Sandbox", "Testnet"}
    THEN IF inner = "ok" THEN Returned(<<"FinalExecutionOutcomeView">>) ELSE Failed(inner)
    ELSE Aborted

-----------------------------------------------------------------------------
\* Context registry (runtime/context.rs):
\* storage scoped to the thread of execution that installed the descriptor.

current(t) == ctx[t]

Enter(registry, t, d) == [registry EXCEPT ![t] = d]

\* Implicit teardown when the owning scope ends.
Leave(registry, t) == [registry EXCEPT ![t] = NoDescriptor]

\* What rt.run() publishes for a runtime of the given kind.
RuntimeDescriptor(kind, port) ==
    IF kind = "SandboxRuntime" THEN Sandbox(port) ELSE Testnet

-----------------------------------------------------------------------------
\* Scope runner (runtime/mod.rs: scope)

\* match &*rt { "sandbox" => .., "testnet" => .., _ => unimplemented!() }
ResolveRuntimeAnyName(nm) ==
    IF nm = "testnet" THEN "TestnetRuntime" ELSE "SandboxRuntime"

ResolveRuntime(nm) ==
    CASE nm = "sandbox" -> "SandboxRuntime"
      [] nm = "testnet" -> "TestnetRuntime"
      [] OTHER -> Unimplemented

\* A thread is in use while a closure runs on it.
InUse(t) == \E c \in Callers : worker[c].pc \in {"startup", "task"} /\ worker[c].thread = t

\* tokio::task::spawn_blocking(task): the closure runs on an idle thread of
\* the blocking pool, never on the scheduler's thread.
InlineThreads(idle) == idle \cap {CoreThread}

ClosureThreads(idle) == idle \cap BlockingThreads

\* Handle::current().block_on(scoped_task): the future is driven on the
\* thread that called block_on, which is the closure's thread.
SpawnedTaskThread(w) == CoreThread

TaskThread(w) == w.thread

\* The scheduler's thread can poll its tasks unless a blocking closure holds it.
CoreFree == ~InUse(CoreThread)

\* spawn_blocking(task).await.map_err(Into::into)
ScopeAwaitUnwrap(cl, w) ==
    IF w.pc = "finished"
    THEN [pc |-> "returned", ok |-> TRUE, value |-> w.output, error |-> ""]
    ELSE [pc |-> "panicked", ok |-> FALSE, value |-> 0, error |-> "panic"]

ScopeAwait(cl, w) ==
    IF w.pc = "finished"
    THEN [pc |-> "returned", ok |-> TRUE, value |-> w.output, error |-> ""]
    ELSE [pc |-> "returned", ok |-> FALSE, value |-> 0, error |-> "JoinError"]

\* The work the caller supplies: helper calls, and for one of the two tasks a
\* transaction submission.
ScopedTasks ==
    [c \in Callers |->
       IF c = 1 THEN <<"json_client", "send_tx", "credentials_filepath">>
       ELSE <<"rt_current_addr", "credentials_filepath">>]

\* The operations of the task caller c supplied.
TaskProgram(c) == program[c]

\* The value the task evaluates to.
TaskOutput(c) == 10 + c

AccountId == "alice"

-----------------------------------------------------------------------------
\* RPC submission layer (rpc/tool.rs)

NoPath == [dir |-> <<>>, file |-> <<>>]

\* One helper call's resolution: the descriptor it read and what it made of it.
Resolution(helper, d, addr, path, err) ==
    [helper |-> helper, desc |-> d, addr |-> addr, path |-> path, err |-> err]

\* rt_current_addr: current().expect(MISSING_RUNTIME_ERROR).rpc_addr()
rt_current_addr(t) ==
    IF current(t) = NoDescriptor THEN NoAddr ELSE rpc_addr(current(t))

\* Either of the two ways rt_current_addr panics.
AddrPanics(addr) == addr \in {NoAddr, PanicAddr}

\* JsonRpcClient::connect(&rt_current_addr())
json_client(t) == [server_addr |-> rt_current_addr(t)]

\* The transaction handed to send_tx.
SignedTx == [payload |-> "transfer", signature |-> 0]

\* JsonRpcError values a broadcast_tx_commit call can return.
NoError == [layer |-> "", server |-> "", handler |-> ""]
TimeoutError == [layer |-> "ServerError", server |-> "HandlerError", handler |-> "TimeoutError"]
InvalidTransaction == [layer |-> "ServerError", server |-> "HandlerError", handler |-> "InvalidTransaction"]
InternalError == [layer |-> "ServerError", server |-> "InternalError", handler |-> ""]
TransportError == [layer |-> "TransportError", server |-> "", handler |-> ""]

\* What the backend can answer an attempt with.
Answers == {"Ok", "TimeoutError", "InvalidTransaction", "InternalError", "TransportError"}

\* The call's result for the k-th request when the backend answers it with a.
Response(a, k) ==
    CASE a = "Ok" -> [ok |-> TRUE, outcome |-> k, err |-> NoError]
      [] a = "TimeoutError" -> [ok |-> FALSE, outcome |-> 0, err |-> TimeoutError]
      [] a = "InvalidTransaction" -> [ok |-> FALSE, outcome |-> 0, err |-> InvalidTransaction]
      [] a = "InternalError" -> [ok |-> FALSE, outcome |-> 0, err |-> InternalError]
      [] OTHER -> [ok |-> FALSE, outcome |-> 0, err |-> TransportError]

NoResponse == [ok |-> FALSE, outcome |-> 0, err |-> NoError]

\* if let Err(ref err) = result { if matches!(err, ServerError(HandlerError(TimeoutError))) .. }
ShouldRetryNever(r) == FALSE

ShouldRetryAnyHandlerError(r) ==
    ~r.ok /\ r.err.layer = "ServerError" /\ r.err.server = "HandlerError"

ShouldRetry(r) ==
    /\ ~r.ok
    /\ r.err.layer = "ServerError"
    /\ r.err.server = "HandlerError"
    /\ r.err.handler = "TimeoutError"

\* loop { .. }: nothing but a break ends the loop.
LoopBounded(attempts) == attempts < 2

LoopCondition(attempts) == TRUE

\* signed_transaction: tx.clone()
ResignedTransaction(t, k) == [t EXCEPT !.signature = k]

RequestTransaction(t, k) == t

\* transaction_info_result.map_err(|e| format!("Error transaction: {:?}", e))
NoMessage == [prefix |-> "", debug |-> NoError]

MapErr(r) ==
    IF r.ok THEN [ok |-> TRUE, outcome |-> r.outcome, msg |-> NoMessage]
    ELSE [ok |-> FALSE, outcome |-> 0,
          msg |-> [prefix |-> "Error transaction: ", debug |-> r.err]]

\* The body of the loop after the call has answered: continue on the timeout
\* error, break with the result otherwise.
OnResponseErrEarly(t, r) ==
    IF ShouldRetry(r)
    THEN [t EXCEPT !.pc = "loop"]
    ELSE IF r.ok THEN [t EXCEPT !.pc = "sleep", !.result = r]
         ELSE [t EXCEPT !.pc = "returned", !.result = r, !.ret = MapErr(r)]

OnResponse(t, r) ==
    IF ShouldRetry(r)
    THEN [t EXCEPT !.pc = "loop"]
    ELSE [t EXCEPT !.pc = "sleep", !.result = r]


-----------------------------------------------------------------------------
\* State decoding (rpc/tool.rs: into_state_map)

\* A base64 text is a sequence of symbols: 0..63 are the characters of the
\* standard alphabet by value, Pad is '=', BadSymbol a character outside it.
Pad == 64
BadSymbol == 65

RECURSIVE Base64Encode(_)
\* base64::encode: three bytes make four symbols, the tail is padded.
Base64Encode(bytes) ==
    IF Len(bytes) = 0 THEN <<>>
    ELSE IF Len(bytes) = 1
    THEN <<bytes[1] \div 4, (bytes[1] % 4) * 16, Pad, Pad>>
    ELSE IF Len(bytes) = 2
    THEN <<bytes[1] \div 4, (bytes[1] % 4) * 16 + (bytes[2] \div 16),
           (bytes[2] % 16) * 4, Pad>>
    ELSE <<bytes[1] \div 4, (bytes[1] % 4) * 16 + (bytes[2] \div 16),
           (bytes[2] % 16) * 4 + (bytes[3] \div 64), bytes[3] % 64>>
         \o Base64Encode(SubSeq(bytes, 4, Len(bytes)))

DecodeError == "base64::DecodeError"
FromUtf8Error == "FromUtf8Error"

RECURSIVE Base64DecodeQuads(_)
\* The bytes of a text made of whole groups of four symbols; <<-1>> marks a
\* group that is not valid.
Base64DecodeQuads(w) ==
    IF Len(w) = 0 THEN <<>>
    ELSE LET a == w[1]  b == w[2]  c == w[3]  d == w[4]
             last == Len(w) = 4
             rest == Base64DecodeQuads(SubSeq(w, 5, Len(w)))
             head ==
               IF a > 63 \/ b > 63 \/ c = BadSymbol \/ d = BadSymbol THEN <<-1>>
               ELSE IF c = Pad
               THEN IF last /\ d = Pad /\ b % 16 = 0
                    THEN <<a * 4 + (b \div 16)>> ELSE <<-1>>
               ELSE IF d = Pad
               THEN IF last /\ c % 4 = 0
                    THEN <<a * 4 + (b \div 16), (b % 16) * 16 + (c \div 4)>> ELSE <<-1>>
               ELSE <<a * 4 + (b \div 16), (b % 16) * 16 + (c \div 4), (c % 4) * 64 + d>>
         IN head \o rest

\* base64::decode of a padded text: Ok(bytes) or Err(DecodeError).
Base64Decode(w) ==
    IF Len(w) % 4 # 0 THEN [ok |-> FALSE, bytes |-> <<>>, err |-> DecodeError]
    ELSE LET bytes == Base64DecodeQuads(w) IN
         IF \E i \in 1..Len(bytes) : bytes[i] = -1
         THEN [ok |-> FALSE, bytes |-> <<>>, err |-> DecodeError]
         ELSE [ok |-> TRUE, bytes |-> bytes, err |-> ""]

Continuation(b) == b \in 128..191

\* The number of bytes of the well-formed UTF-8 sequence bytes starts with,
\* 0 if it starts with none.
Utf8SeqLen(bytes) ==
    LET b == bytes[1]  n == Len(bytes) IN
    IF b < 128 THEN 1
    ELSE IF b \in 194..223
    THEN IF n >= 2 /\ Continuation(bytes[2]) THEN 2 ELSE 0
    ELSE IF b \in 224..239
    THEN IF /\ n >= 3
            /\ bytes[2] \in (IF b = 224 THEN 160..191 ELSE IF b = 237 THEN 128..159 ELSE 128..191)
            /\ Continuation(bytes[3])
         THEN 3 ELSE 0
    ELSE IF b \in 240..244
    THEN IF /\ n >= 4
            /\ bytes[2] \in (IF b = 240 THEN 144..191 ELSE IF b = 244 THEN 128..143 ELSE 128..191)
            /\ Continuation(bytes[3])
            /\ Continuation(bytes[4])
         THEN 4 ELSE 0
    ELSE 0

RECURSIVE Utf8Decode(_)
\* The code points of a byte sequence; <<-1>> marks a place that is not UTF-8.
Utf8Decode(bytes) ==
    IF Len(bytes) = 0 THEN <<>>
    ELSE LET k == Utf8SeqLen(bytes)
             b == bytes
         IN IF k = 0 THEN <<-1>>
            ELSE <<CASE k = 1 -> b[1]
                     [] k = 2 -> (b[1] - 192) * 64 + (b[2] - 128)
                     [] k = 3 -> (b[1] - 224) * 4096 + (b[2] - 128) * 64 + (b[3] - 128)
                     [] OTHER -> (b[1] - 240) * 262144 + (b[2] - 128) * 4096
                                 + (b[3] - 128) * 64 + (b[4] - 128)>>
                 \o Utf8Decode(SubSeq(bytes, k + 1, Len(bytes)))

\* String::from_utf8: Ok(the string, as its code points) or Err(FromUtf8Error).
FromUtf8(bytes) ==
    LET cps == Utf8Decode(bytes) IN
    IF \E i \in 1..Len(cps) : cps[i] = -1
    THEN [ok |-> FALSE, string |-> <<>>, err |-> FromUtf8Error]
    ELSE [ok |-> TRUE, string |-> cps, err |-> ""]

RECURSIVE Utf8Encode(_)
\* String::as_bytes: the UTF-8 bytes of a string given as code points.
Utf8Encode(cps) ==
    IF Len(cps) = 0 THEN <<>>
    ELSE LET cp == cps[1] IN
         (IF cp < 128 THEN <<cp>>
          ELSE IF cp < 2048 THEN <<192 + (cp \div 64), 128 + (cp % 64)>>
          ELSE IF cp < 65536
          THEN <<224 + (cp \div 4096), 128 + ((cp \div 64) % 64), 128 + (cp % 64)>>
          ELSE <<240 + (cp \div 262144), 128 + ((cp \div 4096) % 64),
                 128 + ((cp \div 64) % 64), 128 + (cp % 64)>>)
         \o Utf8Encode(Tail(cps))

\* The closure decode of into_state_map with the value held to be text too.
DecodeItemValueUtf8(item) ==
    LET k == Base64Decode(item.key) IN
    IF ~k.ok THEN [ok |-> FALSE, err |-> k.err]
    ELSE LET str == FromUtf8(k.bytes) IN
         IF ~str.ok THEN [ok |-> FALSE, err |-> str.err]
         ELSE LET v == Base64Decode(item.value) IN
              IF ~v.ok THEN [ok |-> FALSE, err |-> v.err]
              ELSE IF ~FromUtf8(v.bytes).ok THEN [ok |-> FALSE, err |-> FromUtf8Error]
              ELSE [ok |-> TRUE, key |-> str.string, value |-> v.bytes]

\* let decode = |s| Ok((String::from_utf8(base64::decode(&s.key)?)?,
\*                      base64::decode(&s.value)?));
DecodeItem(item) ==
    LET k == Base64Decode(item.key) IN
    IF ~k.ok THEN [ok |-> FALSE, err |-> k.err]
    ELSE LET str == FromUtf8(k.bytes) IN
         IF ~str.ok THEN [ok |-> FALSE, err |-> str.err]
         ELSE LET v == Base64Decode(item.value) IN
              IF ~v.ok THEN [ok |-> FALSE, err |-> v.err]
              ELSE [ok |-> TRUE, key |-> str.string, value |-> v.bytes]

\* HashMap::new()
EmptyMap == [k \in {} |-> <<>>]

\* HashMap::insert keeping the value already there.
MapInsertKeepFirst(m, key, value) ==
    [k \in DOMAIN m \cup {key} |-> IF k \in DOMAIN m THEN m[k] ELSE value]

\* HashMap::insert: the value of a key already present is replaced.
MapInsert(m, key, value) ==
    [k \in DOMAIN m \cup {key} |-> IF k = key THEN value ELSE m[k]]

RECURSIVE CollectSkipping(_, _, _)
\* A collect that leaves out the items that do not decode.
CollectSkipping(items, i, m) ==
    IF i > Len(items) THEN [ok |-> TRUE, map |-> m]
    ELSE LET d == DecodeItem(items[i]) IN
         IF ~d.ok THEN CollectSkipping(items, i + 1, m)
         ELSE CollectSkipping(items, i + 1, MapInsert(m, d.key, d.value))

RECURSIVE Collect(_, _, _)
\* collect::<Result<HashMap<_, _>, _>>(): the first Err ends the iteration and
\* is the result; otherwise every decoded pair is inserted in order.
Collect(items, i, m) ==
    IF i > Len(items) THEN [ok |-> TRUE, map |-> m]
    ELSE LET d == DecodeItem(items[i]) IN
         IF ~d.ok THEN [ok |-> FALSE, err |-> d.err]
         ELSE Collect(items, i + 1, MapInsert(m, d.key, d.value))

IntoStateMapSkipping(items) == CollectSkipping(items, 1, EmptyMap)

\* state_items.iter().map(decode).collect()
into_state_map(items) == Collect(items, 1, EmptyMap)

\* What becomes of the POST to the helper service: it cannot be delivered,
\* or the service answers it with a status.
Deliveries == {"unreachable", "200", "400", "500"}

\* url_create_account: helper_url.join("account")?, then
\* let _resp = client.post(..).send().await?; Ok(())
url_create_account(joined, delivery) ==
    IF ~joined THEN [ok |-> FALSE, err |-> "url::ParseError"]
    ELSE IF delivery = "unreachable" THEN [ok |-> FALSE, err |-> "reqwest::Error"]
    ELSE [ok |-> TRUE, err |-> ""]

-----------------------------------------------------------------------------
\* Initial state: nothing has been called yet.

NoWorker ==
    [pc |-> "unspawned", thread |-> NoThread, kind |-> "", port |-> 0,
     step |-> 0, started |-> FALSE, output |-> 0]

\* No stateless function is being called.
NoCall == [op |-> "none"]

NoTx ==
    [pc |-> "idle", client |-> [server_addr |-> NoAddr], attempts |-> 0,
     result |-> NoResponse, sleeps |-> 0,
     ret |-> [ok |-> FALSE, outcome |-> 0, msg |-> NoMessage]]

Init ==
    /\ name \in [Callers -> Names]
    /\ caller = [c \in Callers |-> [pc |-> "ready", ok |-> FALSE, value |-> 0, error |-> ""]]
    /\ worker = [c \in Callers |-> NoWorker]
    /\ ctx = [t \in Threads |-> NoDescriptor]
    /\ resolved = [c \in Callers |-> <<>>]
    /\ fs = {}
    /\ tx = NoTx
    /\ \E a \in Answers :
          backend = [next |-> a, served |-> <<>>, requests |-> <<>>,
                     pending |-> {}, replies |-> {}]
    /\ program = ScopedTasks
    /\ pure = NoCall

-----------------------------------------------------------------------------
\* Scope runner actions

\* scope(runtime, scoped_task) is called: the closure is handed to
\* spawn_blocking and the caller awaits the JoinHandle.
CallScope(c) ==
    /\ caller[c].pc = "ready"
    /\ CoreFree
    /\ caller' = [caller EXCEPT ![c].pc = "awaiting"]
    /\ worker' = [worker EXCEPT ![c].pc = "queued"]
    /\ UNCHANGED <<name, program, pure, ctx, resolved, fs, tx, backend>>

\* The closure starts on a thread and matches the name; a recognised name
\* creates the default runtime and enters rt.run().
WorkerStart(c) ==
    /\ worker[c].pc = "queued"
    /\ \E t \in ClosureThreads({u \in Threads : ~InUse(u)}) :
         LET kind == ResolveRuntime(name[c]) IN
         IF kind = Unimplemented
         THEN worker' = [worker EXCEPT ![c].pc = "panicked", ![c].thread = t]
         ELSE \E port \in (IF kind = "SandboxRuntime" THEN Ports ELSE {0}) :
                worker' = [worker EXCEPT ![c].pc = "startup", ![c].thread = t,
                                         ![c].kind = kind, ![c].port = port]
    /\ UNCHANGED <<name, program, pure, caller, ctx, resolved, fs, tx, backend>>

\* rt.run() returns Ok: the backend is up and its descriptor is installed for
\* the closure's thread; block_on starts driving the task.
StartupOk(c) ==
    /\ worker[c].pc = "startup"
    /\ worker' = [worker EXCEPT ![c].pc = "task", ![c].step = 1, ![c].started = TRUE]
    /\ ctx' = Enter(ctx, worker[c].thread, RuntimeDescriptor(worker[c].kind, worker[c].port))
    /\ UNCHANGED <<name, program, pure, caller, resolved, fs, tx, backend>>

\* rt.run() returns Err: unwrap() panics in the closure.
StartupErrIgnored(c) ==
    /\ worker[c].pc = "startup"
    /\ worker' = [worker EXCEPT ![c].pc = "task", ![c].step = 1]
    /\ UNCHANGED <<name, program, pure, caller, ctx, resolved, fs, tx, backend>>

StartupErr(c) ==
    /\ worker[c].pc = "startup"
    /\ worker' = [worker EXCEPT ![c].pc = "panicked"]
    /\ UNCHANGED <<name, program, pure, caller, ctx, resolved, fs, tx, backend>>

\* The operation the task is at.
AtOp(c, op) ==
    /\ worker[c].pc = "task"
    /\ worker[c].step <= Len(TaskProgram(c))
    /\ TaskProgram(c)[worker[c].step] = op

\* A panic unwinds the closure: rt is dropped, which tears the descriptor down.
Unwind(c) ==
    /\ worker' = [worker EXCEPT ![c].pc = "panicked"]
    /\ ctx' = Leave(ctx, worker[c].thread)

\* The task panics between two of its operations (an unwrap, an assert).
TaskPanic(c) ==
    /\ worker[c].pc = "task"
    /\ worker[c].step <= Len(TaskProgram(c))
    /\ AtOp(c, "send_tx") => tx.pc = "idle"
    /\ Unwind(c)
    /\ UNCHANGED <<name, program, pure, caller, resolved, fs, tx, backend>>

\* The task completes: block_on returns its output, rt is dropped, the
\* closure returns.
TaskFinish(c) ==
    /\ worker[c].pc = "task"
    /\ worker[c].step > Len(TaskProgram(c))
    /\ worker' = [worker EXCEPT ![c].pc = "finished", ![c].output = TaskOutput(c)]
    /\ ctx' = Leave(ctx, worker[c].thread)
    /\ UNCHANGED <<name, program, pure, caller, resolved, fs, tx, backend>>

\* The JoinHandle resolves and scope returns to its caller.
ScopeReturn(c) ==
    /\ caller[c].pc = "awaiting"
    /\ worker[c].pc \in {"finished", "panicked"}
    /\ CoreFree
    /\ caller' = [caller EXCEPT ![c] = ScopeAwait(caller[c], worker[c])]
    /\ UNCHANGED <<name, program, pure, worker, ctx, resolved, fs, tx, backend>>

-----------------------------------------------------------------------------
\* RPC submission layer actions, run by the task of scope c

\* credentials_filepath once the descriptor is known: keystore_path()?,
\* create_dir_all(path)?, path.push("{account_id}.json").
CredentialsFilepathOnError(d, outcome) ==
    Resolution("credentials_filepath", d, NoAddr,
               [dir |-> keystore_path(d), file |-> <<AccountId, ".json">>],
               IF outcome = "ok" THEN "" ELSE outcome)

CredentialsFilepath(d, outcome) ==
    IF outcome = "ok"
    THEN Resolution("credentials_filepath", d, NoAddr,
                    [dir |-> keystore_path(d), file |-> <<AccountId, ".json">>], "")
    ELSE Resolution("credentials_filepath", d, NoAddr, NoPath, outcome)

\* A call of rt_current_addr or json_client by the task.
AddrStep(c, op) ==
    /\ AtOp(c, op)
    /\ LET t == TaskThread(worker[c])
           addr == IF op = "json_client" THEN json_client(t).server_addr
                   ELSE rt_current_addr(t)
       IN /\ resolved' = [resolved EXCEPT ![c] = Append(@, Resolution(op, current(t), addr, NoPath, ""))]
          /\ IF AddrPanics(addr)
             THEN Unwind(c)
             ELSE /\ worker' = [worker EXCEPT ![c].step = @ + 1]
                  /\ ctx' = ctx
    /\ UNCHANGED <<name, program, pure, caller, fs, tx, backend>>

\* A call of credentials_filepath by the task; the home directory may be
\* unresolvable and the directory may fail to be created.
CredsStep(c) ==
    /\ AtOp(c, "credentials_filepath")
    /\ LET d == current(TaskThread(worker[c])) IN
       IF d = NoDescriptor \/ keystore_path(d) = <<Unimplemented>>
       THEN /\ resolved' = [resolved EXCEPT ![c] = Append(@, CredentialsFilepath(d, "panic"))]
            /\ Unwind(c)
            /\ fs' = fs
       ELSE \E outcome \in {"ok", "Could not get HOME_DIR", "io::Error"} :
            /\ resolved' = [resolved EXCEPT ![c] = Append(@, CredentialsFilepath(d, outcome))]
            /\ fs' = IF outcome = "ok" THEN fs \cup {keystore_path(d)} ELSE fs
            /\ worker' = [worker EXCEPT ![c].step = @ + 1]
            /\ ctx' = ctx
    /\ UNCHANGED <<name, program, pure, caller, tx, backend>>

\* send_tx is entered: let client = json_client();
SendTxStart(c) ==
    /\ AtOp(c, "send_tx")
    /\ tx.pc = "idle"
    /\ LET t == TaskThread(worker[c])
           client == json_client(t)
       IN /\ resolved' = [resolved EXCEPT ![c] =
                             Append(@, Resolution("json_client", current(t), client.server_addr, NoPath, ""))]
          /\ IF AddrPanics(client.server_addr)
             THEN Unwind(c) /\ tx' = tx
             ELSE /\ tx' = [tx EXCEPT !.pc = "loop", !.client = client]
                  /\ UNCHANGED <<worker, ctx>>
    /\ UNCHANGED <<name, program, pure, caller, fs, backend>>

\* client.clone().call(&RpcBroadcastTxCommitRequest { signed_transaction: tx.clone() })
BroadcastPipelined(c) ==
    /\ AtOp(c, "send_tx")
    /\ tx.pc \in {"loop", "awaiting"}
    /\ tx.attempts < MaxAttempts
    /\ LET k == tx.attempts + 1
           req == [attempt |-> k, addr |-> tx.client.server_addr,
                   signed_transaction |-> RequestTransaction(SignedTx, k)]
       IN /\ tx' = [tx EXCEPT !.pc = "awaiting", !.attempts = k]
          /\ backend' = [backend EXCEPT !.requests = Append(@, req),
                                         !.pending = @ \cup {k}]
    /\ UNCHANGED <<name, program, pure, caller, worker, ctx, resolved, fs>>

Broadcast(c) ==
    /\ AtOp(c, "send_tx")
    /\ tx.pc = "loop"
    /\ LoopCondition(tx.attempts)
    /\ tx.attempts < MaxAttempts
    /\ LET k == tx.attempts + 1
           req == [attempt |-> k, addr |-> tx.client.server_addr,
                   signed_transaction |-> RequestTransaction(SignedTx, k)]
       IN /\ tx' = [tx EXCEPT !.pc = "awaiting", !.attempts = k]
          /\ backend' = [backend EXCEPT !.requests = Append(@, req),
                                         !.pending = @ \cup {k}]
    /\ UNCHANGED <<name, program, pure, caller, worker, ctx, resolved, fs>>

\* The backend answers a request it has received, and settles what it will
\* answer the request after it with (nothing past the last attempt explored).
BackendRespond ==
    \E k \in backend.pending :
      \E a \in (IF Len(backend.served) + 1 < MaxAttempts THEN Answers ELSE {"unsettled"}) :
        /\ backend' = [backend EXCEPT
                          !.served = Append(@, backend.next),
                          !.pending = @ \ {k},
                          !.replies = @ \cup {[attempt |-> k, response |-> Response(backend.next, k)]},
                          !.next = a]
        /\ UNCHANGED <<name, program, pure, caller, worker, ctx, resolved, fs, tx>>

\* .await of the call completes with the backend's answer to this attempt.
Receive(c) ==
    /\ AtOp(c, "send_tx")
    /\ tx.pc = "awaiting"
    /\ \E m \in backend.replies :
         /\ m.attempt = tx.attempts
         /\ tx' = OnResponse(tx, m.response)
         /\ backend' = [backend EXCEPT !.replies = @ \ {m}]
    /\ UNCHANGED <<name, program, pure, caller, worker, ctx, resolved, fs>>

\* tokio::time::sleep(3 s) elapses and send_tx returns the mapped result.
Sleep(c) ==
    /\ AtOp(c, "send_tx")
    /\ tx.pc = "sleep"
    /\ tx' = [tx EXCEPT !.pc = "returned", !.sleeps = @ + 1, !.ret = MapErr(tx.result)]
    /\ worker' = [worker EXCEPT ![c].step = @ + 1]
    /\ UNCHANGED <<name, program, pure, caller, ctx, resolved, fs, backend>>

-----------------------------------------------------------------------------

Next ==
    \/ \E c \in Callers :
          \/ CallScope(c)
          \/ WorkerStart(c)
          \/ StartupOk(c)
          \/ StartupErr(c)
          \/ AddrStep(c, "rt_current_addr")
          \/ AddrStep(c, "json_client")
          \/ CredsStep(c)
          \/ SendTxStart(c)
          \/ Broadcast(c)
          \/ Receive(c)
          \/ Sleep(c)
          \/ TaskPanic(c)
          \/ TaskFinish(c)
          \/ ScopeReturn(c)
    \/ BackendRespond

Spec == Init /\ [][Next]_vars

\* The threads run, the scheduler polls ready tasks, timers fire and the
\* backend answers every request it receives.
Fairness ==
    /\ \A c \in Callers :
          /\ WF_vars(CallScope(c))
          /\ WF_vars(WorkerStart(c))
          /\ WF_vars(StartupOk(c) \/ StartupErr(c))
          /\ WF_vars(AddrStep(c, "rt_current_addr") \/ AddrStep(c, "json_client") \/ CredsStep(c))
          /\ WF_vars(SendTxStart(c))
          /\ WF_vars(Broadcast(c))
          /\ WF_vars(Receive(c))
          /\ WF_vars(Sleep(c))
          /\ WF_vars(TaskFinish(c))
          /\ WF_vars(ScopeReturn(c))
    /\ WF_vars(BackendRespond)

FairSpec == Spec /\ Fairness

-----------------------------------------------------------------------------
\* The stateless functions, each called once on an input drawn at the start.

\* Items of one state-decoding call.
MaxItems == 2

NotCalled == [status |-> "not called"]

\* Wire keys: "A", "\u00e9", the byte 0xFF (not UTF-8), and a text with a
\* character outside the alphabet.
WireKeys ==
    {Base64Encode(<<65>>), Base64Encode(<<195, 169>>), Base64Encode(<<255>>),
     <<16, BadSymbol, Pad, Pad>>}

\* Wire values: the byte 0xFF (not UTF-8), the text "hi", and a text with a
\* character outside the alphabet.
WireValues ==
    {Base64Encode(<<255>>), Base64Encode(<<104, 105>>), <<BadSymbol, 16, Pad, Pad>>}

StateItems == [key : WireKeys, value : WireValues]

\* Keys of a mapping, as code points: "", "A", "\u00e9", "\u20ac".
MapKeys == {<<>>, <<65>>, <<233>>, <<8364>>}

\* Values of a mapping, as bytes.
MapValues == {<<>>, <<255>>, <<0, 65, 66>>}

MapEntries == [key : MapKeys, value : MapValues]

SeqsUpTo(S, n) == UNION {[1..k -> S] : k \in 0..n}

\* The variants, with the ends and the middle of the port range.
AccessorPorts == {0, 3030, 3031, 65535}
Flavors == {Mainnet, Testnet} \cup {Sandbox(p) : p \in AccessorPorts}

AccessorNames ==
    {"rpc_addr", "keystore_path", "helper_url", "create_top_level_account",
     "create_tla_and_deploy"}

FnCalls ==
    {[op |-> "into_state_map", items |-> q, done |-> FALSE, out |-> NotCalled] :
        q \in SeqsUpTo(StateItems, MaxItems)}
    \cup
    {[op |-> "round_trip", entries |-> q, items |-> <<>>, done |-> FALSE, out |-> NotCalled] :
        q \in {e \in SeqsUpTo(MapEntries, MaxItems) :
                  \A i, j \in 1..Len(e) : i # j => e[i].key # e[j].key}}
    \cup
    {[op |-> "accessor", fn |-> f, flavor |-> d, home |-> h, inner |-> r,
      done |-> FALSE, out |-> NotCalled] :
        f \in AccessorNames, d \in Flavors, h \in BOOLEAN, r \in {"ok", "err"}}
    \cup
    {[op |-> "url_create_account", joined |-> j, delivery |-> v,
      done |-> FALSE, out |-> NotCalled] :
        j \in BOOLEAN, v \in Deliveries}

FnInit ==
    /\ name = [c \in Callers |-> "sandbox"]
    /\ caller = [c \in Callers |-> [pc |-> "ready", ok |-> FALSE, value |-> 0, error |-> ""]]
    /\ worker = [c \in Callers |-> NoWorker]
    /\ ctx = [t \in Threads |-> NoDescriptor]
    /\ resolved = [c \in Callers |-> <<>>]
    /\ fs = {}
    /\ tx = NoTx
    /\ backend = [next |-> "Ok", served |-> <<>>, requests |-> <<>>,
                  pending |-> {}, replies |-> {}]
    /\ program = ScopedTasks
    /\ pure \in FnCalls

FnFrame == UNCHANGED <<name, caller, worker, ctx, resolved, fs, tx, backend, program>>

\* into_state_map is called on the items as they came over the wire.
IntoStateMapCall ==
    /\ pure.op = "into_state_map" /\ ~pure.done
    /\ pure' = [pure EXCEPT !.done = TRUE, !.out = into_state_map(pure.items)]
    /\ FnFrame

\* A mapping is encoded entry by entry, in the order drawn, and the items are
\* handed to into_state_map.
RoundTripCall ==
    /\ pure.op = "round_trip" /\ ~pure.done
    /\ LET wire == [i \in 1..Len(pure.entries) |->
                      [key |-> Base64Encode(Utf8Encode(pure.entries[i].key)),
                       value |-> Base64Encode(pure.entries[i].value)]]
       IN pure' = [pure EXCEPT !.done = TRUE, !.items = wire, !.out = into_state_map(wire)]
    /\ FnFrame

\* An accessor of RuntimeFlavor is called on a variant.
AccessorCall ==
    /\ pure.op = "accessor" /\ ~pure.done
    /\ pure' = [pure EXCEPT !.done = TRUE, !.out =
                 CASE pure.fn = "rpc_addr" -> RpcAddrCall(pure.flavor)
                   [] pure.fn = "keystore_path" -> KeystorePathCall(pure.flavor, pure.home)
                   [] pure.fn = "helper_url" -> HelperUrlCall(pure.flavor)
                   [] pure.fn = "create_top_level_account" ->
                        CreateTopLevelAccountCall(pure.flavor, pure.inner)
                   [] OTHER -> CreateTlaAndDeployCall(pure.flavor, pure.inner)]
    /\ FnFrame

\* url_create_account is called and the helper service does what it does.
UrlCreateAccountCall ==
    /\ pure.op = "url_create_account" /\ ~pure.done
    /\ pure' = [pure EXCEPT !.done = TRUE, !.out = url_create_account(pure.joined, pure.delivery)]
    /\ FnFrame

FnNext == IntoStateMapCall \/ RoundTripCall \/ AccessorCall \/ UrlCreateAccountCall

FnSpec == FnInit /\ [][FnNext]_vars

-----------------------------------------------------------------------------
\* The end-to-end scenario: in a sandbox scope the task creates the top-level
\* account, resolves and writes its credential file, then reads the RPC
\* address in a nested call.

EndToEndTasks ==
    [c \in Callers |->
       <<"create_top_level_account", "credentials_filepath", "persist", "rt_current_addr">>]

EndToEndInit ==
    /\ name = [c \in Callers |-> "sandbox"]
    /\ caller = [c \in Callers |-> [pc |-> "ready", ok |-> FALSE, value |-> 0, error |-> ""]]
    /\ worker = [c \in Callers |-> NoWorker]
    /\ ctx = [t \in Threads |-> NoDescriptor]
    /\ resolved = [c \in Callers |-> <<>>]
    /\ fs = {}
    /\ tx = NoTx
    /\ backend = [next |-> "Ok", served |-> <<>>, requests |-> <<>>,
                  pending |-> {}, replies |-> {}]
    /\ program = EndToEndTasks
    /\ pure = NoCall

\* The task creates the account through the current descriptor and unwraps
\* the result.
CreateAccountStep(c) ==
    /\ AtOp(c, "create_top_level_account")
    /\ LET d == current(TaskThread(worker[c])) IN
       IF d = NoDescriptor
       THEN /\ resolved' = [resolved EXCEPT ![c] =
                               Append(@, Resolution("create_top_level_account", d, NoAddr, NoPath, "panic"))]
            /\ Unwind(c)
       ELSE \E inner \in {"ok", "rpc error"} :
              LET r == CreateTopLevelAccountCall(d, inner) IN
              /\ resolved' = [resolved EXCEPT ![c] =
                                Append(@, Resolution("create_top_level_account", d, NoAddr, NoPath,
                                                     IF r.status = "ok" THEN "" ELSE inner))]
              /\ IF r.status = "ok"
                 THEN /\ worker' = [worker EXCEPT ![c].step = @ + 1]
                      /\ ctx' = ctx
                 ELSE Unwind(c)
    /\ UNCHANGED <<name, program, pure, caller, fs, tx, backend>>

\* The task writes the credential to the path credentials_filepath gave it;
\* without a path, or when the write fails, it unwraps an error.
PersistStep(c) ==
    /\ AtOp(c, "persist")
    /\ LET last == resolved[c][Len(resolved[c])] IN
       IF last.err # ""
       THEN /\ resolved' = [resolved EXCEPT ![c] =
                               Append(@, Resolution("persist", last.desc, NoAddr, NoPath, last.err))]
            /\ Unwind(c)
            /\ fs' = fs
       ELSE \E outcome \in {"ok", "io::Error"} :
              /\ resolved' = [resolved EXCEPT ![c] =
                                Append(@, Resolution("persist", last.desc, NoAddr, last.path,
                                                     IF outcome = "ok" THEN "" ELSE outcome))]
              /\ IF outcome = "ok"
                 THEN /\ fs' = fs \cup {last.path.dir \o last.path.file}
                      /\ worker' = [worker EXCEPT ![c].step = @ + 1]
                      /\ ctx' = ctx
                 ELSE /\ fs' = fs
                      /\ Unwind(c)
    /\ UNCHANGED <<name, program, pure, caller, tx, backend>>

EndToEndNext ==
    \E c \in Callers :
       \/ CallScope(c)
       \/ WorkerStart(c)
       \/ StartupOk(c)
       \/ StartupErr(c)
       \/ CreateAccountStep(c)
       \/ CredsStep(c)
       \/ PersistStep(c)
       \/ AddrStep(c, "rt_current_addr")
       \/ TaskPanic(c)
       \/ TaskFinish(c)
       \/ ScopeReturn(c)

EndToEndSpec == EndToEndInit /\ [][EndToEndNext]_vars

-----------------------------------------------------------------------------
\* Properties

\* What the backend answers the k-th attempt with, as far as it is settled.
Plan(k) ==
    IF k <= Len(backend.served) THEN backend.served[k]
    ELSE IF k = Len(backend.served) + 1 THEN backend.next
    ELSE "unsettled"

\* The backend answers the first n attempts with the timeout error and the
\* (n+1)-th with success.
TimeoutsThenOk(n) ==
    /\ \A k \in 1..n : Plan(k) = "TimeoutError"
    /\ Plan(n + 1) = "Ok"

\* C1: if the backend answers the first N attempts of the send_tx call with
\* the timeout error and the (N+1)-th with success, send_tx never makes more
\* than N+1 attempts, it leaves the loop only after the (N+1)-th, and what it
\* returns is Ok carrying the outcome of the (N+1)-th attempt.
C1_RetriesUntilSuccess ==
    \A n \in 0..(MaxAttempts - 1) :
      TimeoutsThenOk(n) =>
        /\ tx.attempts <= n + 1
        /\ tx.pc \in {"sleep", "returned"} => tx.attempts = n + 1
        /\ tx.pc = "returned" =>
              tx.ret = [ok |-> TRUE, outcome |-> n + 1, msg |-> NoMessage]

\* send_tx returned Ok after two timeouts and a success.
C1_Witness ==
    /\ tx.pc = "returned"
    /\ backend.served = <<"TimeoutError", "TimeoutError", "Ok">>
    /\ tx.attempts = 3
    /\ tx.ret.ok

NonTimeoutErrors == {"InvalidTransaction", "InternalError", "TransportError"}

\* The JsonRpcError the backend's answer a stands for.
ErrorOf(a) ==
    CASE a = "InvalidTransaction" -> InvalidTransaction
      [] a = "InternalError" -> InternalError
      [] a = "TransportError" -> TransportError
      [] a = "TimeoutError" -> TimeoutError
      [] OTHER -> NoError

\* C2: an error answer other than the timeout error is the last answer the
\* call asks for: no attempt is made after it, and send_tx returns Err
\* wrapping that error.
C2_OtherErrorsEndTheLoop ==
    \A k \in 1..Len(backend.served) :
      backend.served[k] \in NonTimeoutErrors =>
        /\ tx.attempts = k
        /\ Len(backend.requests) = k
        /\ tx.pc \in {"awaiting", "sleep", "returned"}
        /\ tx.pc = "returned" =>
              tx.ret = [ok |-> FALSE, outcome |-> 0,
                        msg |-> [prefix |-> "Error transaction: ",
                                 debug |-> ErrorOf(backend.served[k])]]

\* send_tx returned the transport error that followed one timeout.
C2_Witness ==
    /\ tx.pc = "returned"
    /\ backend.served = <<"TimeoutError", "TransportError">>
    /\ ~tx.ret.ok

\* The descriptor a scope started under a supported name is bound to.
OwnDescriptor(c) ==
    IF name[c] = "sandbox" THEN Sandbox(worker[c].port) ELSE Testnet

\* The address a scope started under a supported name expects.
OwnAddr(c) ==
    IF name[c] = "sandbox" THEN [host |-> "http://localhost:", port |-> worker[c].port]
    ELSE TESTNET_RPC_URL

\* Every helper call of c's task resolved c's own descriptor.
ResolvesOwn(c) ==
    \A i \in 1..Len(resolved[c]) :
      /\ resolved[c][i].desc = OwnDescriptor(c)
      /\ resolved[c][i].helper \in {"rt_current_addr", "json_client"} =>
            resolved[c][i].addr = OwnAddr(c)

\* C3: with one scope started as "sandbox" and the other as "testnet", every
\* helper call made inside a scope's task resolves that scope's descriptor and
\* not the other scope's, whatever the interleaving.
C3_ConcurrentScopesIsolated ==
    \A c, d \in Callers :
      (name[c] = "sandbox" /\ name[d] = "testnet") =>
        /\ ResolvesOwn(c)
        /\ ResolvesOwn(d)
        /\ \A i \in 1..Len(resolved[c]) : resolved[c][i].desc # Testnet
        /\ \A i \in 1..Len(resolved[d]) : resolved[d][i].desc.flavor # "Sandbox"

\* Both tasks are running at once and each has made a helper call.
C3_Witness ==
    /\ name[1] = "sandbox" /\ name[2] = "testnet"
    /\ worker[1].pc = "task" /\ worker[2].pc = "task"
    /\ Len(resolved[1]) >= 1 /\ Len(resolved[2]) >= 1

Supported == {"sandbox", "testnet"}

\* C4: for a supported name the descriptor scope installs is the one
\* current() returns on the task's thread for as long as the task runs, so
\* that every helper call of the task, the first to the last, resolves it; the
\* caller's thread never sees a descriptor through current(), and no thread
\* keeps one once the scope that installed it has ended.
C4_VisibleInsideOnly ==
    /\ \A c \in Callers :
         name[c] \in Supported =>
           /\ worker[c].pc = "task" => current(worker[c].thread) = OwnDescriptor(c)
           /\ ResolvesOwn(c)
           /\ worker[c].pc = "finished" => Len(resolved[c]) = Len(TaskProgram(c))
    /\ current(CoreThread) = NoDescriptor
    /\ \A t \in Threads :
         current(t) # NoDescriptor =>
           \E c \in Callers : worker[c].pc = "task" /\ worker[c].thread = t

\* A sandbox scope and a testnet scope both ran their task to its last helper
\* call and returned to the caller.
C4_Witness ==
    \E c, d \in Callers :
      /\ name[c] = "sandbox" /\ name[d] = "testnet"
      /\ caller[c].pc = "returned" /\ caller[c].ok
      /\ caller[d].pc = "returned" /\ caller[d].ok
      /\ Len(resolved[c]) = Len(TaskProgram(c))
      /\ Len(resolved[d]) = Len(TaskProgram(d))

Done(c) == worker[c].pc \in {"finished", "panicked"}

\* C5: while a scope's worker is in rt.run() or runs its task, the caller's
\* scheduler goes on polling: another task can call scope and can take its
\* scope's completion, and an awaiting caller is held back by nothing but its
\* own worker not having completed.
C5_SchedulerNotBlocked ==
    /\ \A c, d \in Callers :
         (c # d /\ worker[c].pc \in {"startup", "task"}) =>
           /\ caller[d].pc = "ready" => ENABLED CallScope(d)
           /\ (caller[d].pc = "awaiting" /\ Done(d)) => ENABLED ScopeReturn(d)
    /\ \A c \in Callers :
         caller[c].pc = "awaiting" => (ENABLED ScopeReturn(c) <=> Done(c))
    /\ \A c \in Callers :
         worker[c].pc \in {"startup", "task"} => worker[c].thread # CoreThread

\* A second scope call has completed while the first is still in rt.run().
C5_Witness ==
    \E c, d \in Callers :
      /\ worker[c].pc = "startup"
      /\ caller[d].pc = "returned" /\ caller[d].ok

\* C6: scope called with a name that is neither "sandbox" nor "testnet" gives
\* its caller an error: no backend is started, no descriptor is installed and
\* no step of the task is executed.
C6_UnknownNameFails ==
    \A c \in Callers :
      name[c] \notin Supported =>
        /\ worker[c].pc \in {"unspawned", "queued", "panicked"}
        /\ ~worker[c].started
        /\ worker[c].kind = ""
        /\ worker[c].step = 0
        /\ resolved[c] = <<>>
        /\ (worker[c].thread # NoThread /\ ~InUse(worker[c].thread)) =>
              current(worker[c].thread) = NoDescriptor
        /\ "send_tx" \in {TaskProgram(c)[i] : i \in 1..Len(TaskProgram(c))} => tx = NoTx
        /\ caller[c].pc \notin {"ready", "awaiting"} =>
              caller[c] = [pc |-> "returned", ok |-> FALSE, value |-> 0, error |-> "JoinError"]

\* A scope call with an unknown name has returned its error.
C6_Witness ==
    \E c \in Callers :
      /\ name[c] = "mainnet"
      /\ caller[c].pc = "returned"
      /\ ~caller[c].ok

\* What scope gives back, in every state where it has returned.
ScopeResultMatchesWorker ==
    \A c \in Callers :
      /\ caller[c].pc \in {"ready", "awaiting", "returned"}
      /\ caller[c].pc = "returned" =>
            /\ Done(c)
            /\ caller[c].ok <=> worker[c].pc = "finished"
            /\ caller[c].ok =>
                  /\ caller[c].value = TaskOutput(c)
                  /\ worker[c].step = Len(TaskProgram(c)) + 1
            /\ ~caller[c].ok => caller[c].error = "JoinError"

\* A step in which one scope's worker aborts changes nothing of the other
\* scope's worker or caller, nor of the aborting scope's caller.
AbortIsLocal ==
    \A c \in Callers :
      (worker[c].pc # "panicked" /\ worker'[c].pc = "panicked") =>
        /\ caller' = caller
        /\ \A d \in Callers \ {c} : worker'[d] = worker[d]
        /\ \A t \in Threads \ {worker'[c].thread} : ctx'[t] = ctx[t]

\* C7: scope returns Ok(v) exactly when the worker ran the task to completion
\* with output v, and Err (never a panic of the caller) when the worker
\* aborted, be it in startup or in the task; one worker's abort leaves the
\* caller and the other scope as they were.
C7_ResultOrJoinError == []ScopeResultMatchesWorker /\ [][AbortIsLocal]_vars

\* One scope failed in startup and returned Err, the other, running at the
\* same time, returned Ok.
C7_Witness ==
    \E c, d \in Callers :
      /\ worker[c].pc = "panicked" /\ worker[c].kind # "" /\ ~worker[c].started
      /\ caller[c].pc = "returned" /\ ~caller[c].ok
      /\ caller[d].pc = "returned" /\ caller[d].ok

\* A task panicked after its first helper call and its scope returned Err.
C7_WitnessTaskPanic ==
    \E c \in Callers :
      /\ worker[c].pc = "panicked" /\ worker[c].started /\ Len(resolved[c]) >= 1
      /\ caller[c].pc = "returned" /\ ~caller[c].ok

\* Every answer the backend has given so far is the timeout error.
OnlyTimeouts == \A k \in 1..Len(backend.served) : backend.served[k] = "TimeoutError"

\* send_tx has left the loop only on an answer that is not the timeout error,
\* which is the answer to its last attempt.
ReturnsOnlyOnNonTimeout ==
    tx.pc \in {"sleep", "returned"} =>
      /\ Len(backend.served) = tx.attempts
      /\ tx.attempts >= 1
      /\ backend.served[tx.attempts] # "TimeoutError"
      /\ ~OnlyTimeouts

\* An attempt the backend answers with anything but the timeout error leads
\* to send_tx returning.
NonTimeoutLeadsToReturn ==
    \A k \in 1..MaxAttempts :
      (tx.pc = "awaiting" /\ tx.attempts = k /\ Plan(k) # "TimeoutError")
        ~> (tx.pc = "returned" /\ tx.attempts = k)

\* An attempt the backend answers with the timeout error leads to the next
\* attempt, whatever the number of attempts made so far.
TimeoutLeadsToRetry ==
    \A k \in 1..(MaxAttempts - 1) :
      (tx.pc = "awaiting" /\ tx.attempts = k /\ Plan(k) = "TimeoutError")
        ~> (tx.attempts = k + 1 /\ OnlyTimeouts)

\* C8: send_tx has no maximum attempt count. It returns only on an answer other
\* than the timeout error, it does return once an attempt gets such an answer,
\* and as long as the answers are timeouts it goes on to a further attempt, at
\* every attempt count below the explored bound.
C8_NoAttemptCap ==
    /\ []ReturnsOnlyOnNonTimeout
    /\ NonTimeoutLeadsToReturn
    /\ TimeoutLeadsToRetry

\* Every explored attempt was answered with the timeout error and send_tx is
\* back at the top of its loop, not returned.
C8_Witness ==
    /\ Len(backend.served) = MaxAttempts
    /\ OnlyTimeouts
    /\ tx.attempts = MaxAttempts
    /\ tx.pc = "loop"

\* The scope whose task calls send_tx.
TxCaller == CHOOSE c \in Callers : \E i \in 1..Len(TaskProgram(c)) : TaskProgram(c)[i] = "send_tx"

\* The helper calls of the transaction's task that resolved a client.
ClientResolutions ==
    {i \in 1..Len(resolved[TxCaller]) : resolved[TxCaller][i].helper = "json_client"}

\* C9: every broadcast of the send_tx call carries the signed transaction that
\* was passed in, unchanged, and goes to one address: that of the scope's
\* descriptor, resolved once, when send_tx is entered and before any attempt.
C9_SameTransactionSameAddress ==
    /\ \A i \in 1..Len(backend.requests) :
         /\ backend.requests[i].signed_transaction = SignedTx
         /\ backend.requests[i].attempt = i
         /\ backend.requests[i].addr = OwnAddr(TxCaller)
         /\ backend.requests[i].addr = tx.client.server_addr
    /\ Len(backend.requests) = tx.attempts
    /\ tx.pc = "idle" => tx.attempts = 0
    /\ tx.pc # "idle" =>
         /\ Cardinality(ClientResolutions) = 2
         /\ resolved[TxCaller][2].addr = tx.client.server_addr

\* Three broadcasts have been made by the call.
C9_Witness ==
    /\ Len(backend.requests) = 3
    /\ tx.pc = "awaiting"

\* C10: the delay happens once per call, after the loop has been left with
\* the terminal response and before send_tx returns, for a success and for an
\* error alike; none has happened while the call is still retrying.
C10_DelayOnceAfterTerminal ==
    /\ tx.pc \in {"idle", "loop", "awaiting"} => tx.sleeps = 0
    /\ tx.pc = "sleep" =>
         /\ tx.sleeps = 0
         /\ tx.result = Response(backend.served[tx.attempts], tx.attempts)
         /\ backend.served[tx.attempts] # "TimeoutError"
    /\ tx.pc = "returned" =>
         /\ tx.sleeps = 1
         /\ tx.ret.ok <=> backend.served[tx.attempts] = "Ok"

\* send_tx returned a terminal error after one retry, having slept once.
C10_Witness ==
    /\ tx.pc = "returned"
    /\ tx.sleeps = 1
    /\ tx.attempts = 2
    /\ ~tx.ret.ok

\* send_tx returned a success after one retry, having slept once.
C10_WitnessOk ==
    /\ tx.pc = "returned"
    /\ tx.sleeps = 1
    /\ tx.attempts = 2
    /\ tx.ret.ok

-----------------------------------------------------------------------------
\* Properties of the stateless functions

\* The ways an item fails to decode.
KeyNotBase64(item) == ~Base64Decode(item.key).ok
KeyNotUtf8(item) == Base64Decode(item.key).ok /\ ~FromUtf8(Base64Decode(item.key).bytes).ok
ValueNotBase64(item) == ~Base64Decode(item.value).ok
ValueNotUtf8(item) == Base64Decode(item.value).ok /\ ~FromUtf8(Base64Decode(item.value).bytes).ok
BadItem(item) == KeyNotBase64(item) \/ KeyNotUtf8(item) \/ ValueNotBase64(item)

DecodingDone == pure.op = "into_state_map" /\ pure.done

\* C11: into_state_map is all-or-nothing. With an item whose key is not
\* base64, whose key is not UTF-8 or whose value is not base64, at whatever
\* position, the call returns an error and no map; without one it returns Ok,
\* also when a value's bytes are not UTF-8.
C11_AllOrNothing ==
    DecodingDone =>
      IF \E i \in 1..Len(pure.items) : BadItem(pure.items[i])
      THEN /\ ~pure.out.ok
           /\ DOMAIN pure.out = {"ok", "err"}
           /\ pure.out.err \in {DecodeError, FromUtf8Error}
      ELSE /\ pure.out.ok
           /\ DOMAIN pure.out = {"ok", "map"}

\* The first item decodes, its value not being UTF-8; the second has a key
\* that is not UTF-8; the call returned an error.
C11_Witness ==
    /\ DecodingDone
    /\ Len(pure.items) = 2
    /\ ~BadItem(pure.items[1]) /\ ValueNotUtf8(pure.items[1])
    /\ KeyNotUtf8(pure.items[2])
    /\ ~pure.out.ok

\* C12: a mapping from UTF-8 keys to byte values, encoded entry by entry as
\* base64 pairs in any order, is returned by into_state_map as it was: Ok, the
\* same keys, the same bytes for every key.
C12_RoundTrip ==
    (pure.op = "round_trip" /\ pure.done) =>
      /\ pure.out.ok
      /\ DOMAIN pure.out.map = {pure.entries[i].key : i \in 1..Len(pure.entries)}
      /\ \A i \in 1..Len(pure.entries) :
            pure.out.map[pure.entries[i].key] = pure.entries[i].value

\* A mapping of two entries, one under a three-byte key and one whose value is
\* not UTF-8, came back.
C12_Witness ==
    /\ pure.op = "round_trip" /\ pure.done
    /\ Len(pure.entries) = 2
    /\ pure.entries[1].key = <<8364>>
    /\ pure.entries[2].value = <<255>>
    /\ pure.out.ok

\* The accessors a variant does not define.
Undefined(fn, d) ==
    \/ d.flavor = "Mainnet"
    \/ fn = "helper_url" /\ d.flavor = "Sandbox"

AccessorDone == pure.op = "accessor" /\ pure.done

\* C13: an accessor called on a variant that does not define it aborts and
\* returns nothing; on a variant that defines it, it does not abort.
C13_UndefinedAborts ==
    AccessorDone =>
      (pure.out.status = "abort" <=> Undefined(pure.fn, pure.flavor))

\* Every call that departs from C13 is keystore_path on Mainnet with no home
\* directory, which returns the error of the home lookup.
C13_OnlyHomeLookupDeparts ==
    (AccessorDone /\ ~(pure.out.status = "abort" <=> Undefined(pure.fn, pure.flavor))) =>
      /\ pure.fn = "keystore_path" /\ pure.flavor = Mainnet /\ ~pure.home
      /\ pure.out = Failed("Could not get HOME_DIR")

\* keystore_path on Mainnet, the home directory not resolved: an error came
\* back.
C13_FailingInput ==
    /\ AccessorDone
    /\ pure.fn = "keystore_path" /\ pure.flavor = Mainnet /\ ~pure.home
    /\ pure.out.status = "err"

\* C15: rpc_addr of Sandbox(port) is http://localhost:{port} for every port,
\* rpc_addr of Testnet is one fixed URL, and the credential directories of
\* Sandbox and Testnet are two distinct fixed paths under the home directory,
\* whatever the port.
C15_AccessorsOfTheVariant ==
    /\ (AccessorDone /\ pure.fn = "rpc_addr" /\ pure.flavor.flavor = "Sandbox") =>
         pure.out = [status |-> "ok",
                     value |-> [host |-> "http://localhost:", port |-> pure.flavor.port]]
    /\ (AccessorDone /\ pure.fn = "rpc_addr" /\ pure.flavor.flavor = "Testnet") =>
         pure.out = [status |-> "ok", value |-> TESTNET_RPC_URL]
    /\ (AccessorDone /\ pure.fn = "keystore_path" /\ pure.home /\ pure.flavor.flavor = "Sandbox") =>
         pure.out = [status |-> "ok", value |-> <<HomeDir, ".near-credentials/sandbox/">>]
    /\ (AccessorDone /\ pure.fn = "keystore_path" /\ pure.home /\ pure.flavor.flavor = "Testnet") =>
         pure.out = [status |-> "ok", value |-> <<HomeDir, ".near-credentials/testnet/">>]
    /\ AccessorDone =>
         \A p, q \in AccessorPorts :
           /\ p # q => rpc_addr(Sandbox(p)) # rpc_addr(Sandbox(q))
           /\ rpc_addr(Sandbox(p)) # rpc_addr(Testnet)
           /\ keystore_path(Sandbox(p)) = keystore_path(Sandbox(q))
           /\ keystore_path(Sandbox(p)) # keystore_path(Testnet)

\* rpc_addr was called on the sandbox variant with the highest port.
C15_Witness ==
    /\ AccessorDone
    /\ pure.fn = "rpc_addr"
    /\ pure.flavor = Sandbox(65535)
    /\ pure.out.status = "ok"

\* C16: url_create_account returns Ok only when the helper service reports
\* success, and an error when the request cannot be delivered or the service
\* answers it with a failure.
C16_ReportsWhatTheHelperReports ==
    (pure.op = "url_create_account" /\ pure.done /\ pure.joined) =>
      (pure.out.ok <=> pure.delivery = "200")

\* Every call that departs from C16 was delivered and answered with a failure
\* status, and returned Ok.
C16_OnlyFailureStatusDeparts ==
    (pure.op = "url_create_account" /\ pure.done /\ pure.joined
       /\ ~(pure.out.ok <=> pure.delivery = "200")) =>
      /\ pure.delivery \in {"400", "500"}
      /\ pure.out.ok

\* The helper answered the POST with 500 and the call returned Ok.
C16_FailingInput ==
    /\ pure.op = "url_create_account" /\ pure.done /\ pure.joined
    /\ pure.delivery = "500"
    /\ pure.out.ok

\* The decoded keys of the items, in a call that decoded them all.
DecodedKeys == {DecodeItem(pure.items[i]).key : i \in 1..Len(pure.items)}

\* The last item that decodes to key k.
LastWith(k) ==
    CHOOSE i \in 1..Len(pure.items) :
      /\ DecodeItem(pure.items[i]).key = k
      /\ \A j \in (i + 1)..Len(pure.items) : DecodeItem(pure.items[j]).key # k

\* C20 as stated: the result has one entry per input item.
C20_OneEntryPerItem ==
    (DecodingDone /\ pure.out.ok) =>
      Cardinality(DOMAIN pure.out.map) = Len(pure.items)

\* C20 as amended: the result has one entry per distinct decoded key, holding
\* the value of the last item with that key; it has one entry per item when
\* the items' keys are pairwise distinct.
C20_OneEntryPerKey ==
    (DecodingDone /\ pure.out.ok) =>
      /\ DOMAIN pure.out.map = DecodedKeys
      /\ Cardinality(DOMAIN pure.out.map) <= Len(pure.items)
      /\ \A k \in DecodedKeys :
            pure.out.map[k] = DecodeItem(pure.items[LastWith(k)]).value
      /\ (\A i, j \in 1..Len(pure.items) :
             i # j => pure.items[i].key # pure.items[j].key)
           => Cardinality(DOMAIN pure.out.map) = Len(pure.items)

\* Two items with the same key and different values gave a map of one entry.
C20_Witness ==
    /\ DecodingDone /\ pure.out.ok
    /\ Len(pure.items) = 2
    /\ pure.items[1].key = pure.items[2].key
    /\ pure.items[1].value # pure.items[2].value
    /\ Cardinality(DOMAIN pure.out.map) = 1

-----------------------------------------------------------------------------
\* Properties of the credential path, the worker's order and the broadcasts

\* The credentials_filepath calls made so far, as (scope, position) pairs.
CredentialCalls ==
    {p \in Callers \X (1..Len(ScopedTasks[1]) + Len(ScopedTasks[2])) :
       /\ p[2] <= Len(resolved[p[1]])
       /\ resolved[p[1]][p[2]].helper = "credentials_filepath"}

CredentialCall(p) == resolved[p[1]][p[2]]

\* The paths of credential files, for every descriptor and account.
CredentialFiles ==
    {keystore_path(d) \o <<AccountId, ".json">> : d \in {Sandbox(q) : q \in Ports} \cup {Testnet}}

\* C17: for both supported kinds, credentials_filepath inside a scope returns
\* <credential directory of the kind>/<account_id>.json with the directory
\* existing, and touches no credential file; when the home directory is not
\* resolved or the directory cannot be created it returns the error and no
\* path, having created nothing.
C17_CredentialPath ==
    /\ \A p \in CredentialCalls :
         LET r == CredentialCall(p) IN
         IF r.err = ""
         THEN /\ r.desc.flavor \in {"Sandbox", "Testnet"}
              /\ r.path.dir = <<HomeDir, IF r.desc.flavor = "Sandbox"
                                         THEN ".near-credentials/sandbox/"
                                         ELSE ".near-credentials/testnet/">>
              /\ r.path.file = <<"alice", ".json">>
              /\ r.path.dir \in fs
         ELSE r.path = NoPath
    /\ fs \cap CredentialFiles = {}
    /\ \A dir \in fs :
         \E p \in CredentialCalls : CredentialCall(p).err = "" /\ CredentialCall(p).path.dir = dir

\* A sandbox scope and a testnet scope have each got their path, the two
\* directories exist.
C17_Witness ==
    \E p, q \in CredentialCalls :
      /\ CredentialCall(p).desc.flavor = "Sandbox" /\ CredentialCall(p).err = ""
      /\ CredentialCall(q).desc.flavor = "Testnet" /\ CredentialCall(q).err = ""
      /\ Cardinality(fs) = 2

\* The home directory was not resolved: an error, no path, no directory.
C17_WitnessError ==
    \E p \in CredentialCalls :
      /\ CredentialCall(p).err = "Could not get HOME_DIR"
      /\ CredentialCall(p).path = NoPath
      /\ fs = {}

\* C18: in the worker of a scope call, startup succeeds, then the descriptor
\* is installed, then the task takes its first step: the task has taken no
\* step and made no call unless startup has succeeded, the descriptor is in
\* place while the task runs, and after a failed startup the task never runs.
C18_StartupInstallTask ==
    \A c \in Callers :
      /\ worker[c].step >= 1 => worker[c].started
      /\ resolved[c] # <<>> => worker[c].started
      /\ worker[c].pc \in {"task", "finished"} => worker[c].started
      /\ worker[c].pc = "task" =>
           current(worker[c].thread) = RuntimeDescriptor(worker[c].kind, worker[c].port)
      /\ ~worker[c].started => (worker[c].step = 0 /\ resolved[c] = <<>>)

\* The order as steps: a worker leaves startup either started, installed and
\* at the task's first operation, or panicked with the task not begun.
C18_StartupStep ==
    [][\A c \in Callers :
         (worker[c].pc = "startup" /\ worker'[c].pc # "startup") =>
           \/ /\ worker'[c].pc = "task" /\ worker'[c].started /\ worker'[c].step = 1
              /\ ctx'[worker[c].thread] = RuntimeDescriptor(worker[c].kind, worker[c].port)
              /\ resolved'[c] = <<>>
           \/ /\ worker'[c].pc = "panicked" /\ ~worker'[c].started /\ worker'[c].step = 0
              /\ resolved'[c] = <<>>]_vars

\* One scope's task has made its first call after a successful startup while
\* the other scope's startup failed and its caller got the error.
C18_Witness ==
    \E c, o \in Callers :
      /\ worker[c].started /\ Len(resolved[c]) >= 1
      /\ worker[o].pc = "panicked" /\ worker[o].kind # "" /\ ~worker[o].started
      /\ caller[o].pc = "returned" /\ resolved[o] = <<>>

\* The attempts of the current send_tx call that are with the backend or on
\* their way back.
InFlight == backend.pending \cup {m.attempt : m \in backend.replies}

\* C19: the attempts of one send_tx call are sequential. At most one is in
\* flight, it is the last one issued and the call is awaiting it; every
\* attempt before the last was answered with a timeout; the response returned
\* is the one to the last attempt issued.
C19_SequentialAttempts ==
    /\ Cardinality(InFlight) <= 1
    /\ Cardinality(backend.replies) = Cardinality({m.attempt : m \in backend.replies})
    /\ InFlight # {} => (tx.pc = "awaiting" /\ InFlight = {tx.attempts})
    /\ Len(backend.requests) = tx.attempts
    /\ \A k \in 1..Len(backend.requests) :
         /\ backend.requests[k].attempt = k
         /\ k < tx.attempts => (Len(backend.served) >= k /\ backend.served[k] = "TimeoutError")
    /\ tx.pc \in {"sleep", "returned"} =>
         /\ Len(backend.served) = tx.attempts
         /\ tx.result = Response(backend.served[tx.attempts], tx.attempts)
    /\ tx.pc = "returned" => tx.ret = MapErr(tx.result)

\* The third attempt is in flight, the two before it were answered with
\* timeouts.
C19_Witness ==
    /\ tx.pc = "awaiting"
    /\ tx.attempts = 3
    /\ backend.pending = {3}
    /\ backend.served = <<"TimeoutError", "TimeoutError">>

\* The call returned the success of its second attempt.
C19_WitnessReturned ==
    /\ tx.pc = "returned"
    /\ tx.attempts = 2
    /\ tx.ret.ok /\ tx.ret.outcome = 2

-----------------------------------------------------------------------------
\* Properties of the end-to-end scenario

\* The scope's task has created "alice", written its credential file and
\* read the RPC address in the nested call.
ScenarioDone(c) ==
    /\ Len(resolved[c]) = 4
    /\ \A i \in 1..4 : resolved[c][i].helper = EndToEndTasks[c][i]
    /\ \A i \in 1..3 : resolved[c][i].err = ""
    /\ (keystore_path(Sandbox(worker[c].port)) \o <<"alice", ".json">>) \in fs

\* C14 as stated: the address read is http://localhother:{p}, p the port of
\* the scope.
C14_AddressAsStated ==
    \A c \in Callers :
      ScenarioDone(c) =>
        resolved[c][4].addr = [host |-> "http://localhother:", port |-> worker[c].port]

\* C14 as amended: the descriptor read is Sandbox(p) and the address read is
\* http://localhost:{p}, p the port of the scope; the nested call is never
\* reached without the account created and the credential written.
C14_EndToEndAddress ==
    \A c \in Callers :
      /\ ScenarioDone(c) =>
           /\ resolved[c][4].desc = Sandbox(worker[c].port)
           /\ resolved[c][4].addr = [host |-> "http://localhost:", port |-> worker[c].port]
      /\ \A i \in 1..Len(resolved[c]) :
           resolved[c][i].helper = "rt_current_addr" => (i = 4 /\ ScenarioDone(c))

\* Both scopes have run the scenario to its end and returned.
C14_Witness ==
    \A c \in Callers :
      /\ ScenarioDone(c)
      /\ worker[c].port \in Ports
      /\ caller[c].pc = "returned" /\ caller[c].ok

====
